---- MODULE Spec2Model ----
(***************************************************************************)
(* Model of the Silayan Laundry counter.                                   *)
(*                                                                         *)
(*   Count Store          src/hooks/useLaundryItems.ts        (Spec)       *)
(*   Count Store, batched  calls between two renders       (SpecBatch)     *)
(*   Upload Client        src/lib/services/DiscordService.ts  (SpecUpload) *)
(*   Image Compositor     CanvasImageGenerator             (SpecImage)     *)
(*   Submission Recorder  AnalyticsDB.recordSubmission     (SpecAnalytics) *)
(*   Orchestrator         LaundryCounter and its hooks     (SpecOrch)      *)
(*                                                                         *)
(* Each specification moves the variables of one component and leaves the  *)
(* others as they start.                                                   *)
(*                                                                         *)
(* An item name is a sequence of one-character strings, so that            *)
(* String.prototype.trim is computed and not assumed.  A JavaScript number *)
(* is a record [kind, h]: kind is "finite", "NaN", "Infinity" or           *)
(* "-Infinity", and a finite number has the value h / 2 (h counts halves,  *)
(* which is enough to tell truncation from rounding and from flooring).    *)
(* The finite numbers of the model range over -MAX_VALUE .. MAX_VALUE; a   *)
(* sum beyond that range overflows to an infinity, as IEEE-754 doubles do  *)
(* beyond Number.MAX_VALUE.                                                *)
(***************************************************************************)
EXTENDS Integers, Sequences, FiniteSets, TLC

VARIABLES
    items,          \* useLaundryItems: predefined-item counts (name -> number)
    customItems,    \* useLaundryItems: custom-item counts (name -> number)
    last,           \* the Count Store call made last, with its arguments
    setItemsQueue,  \* React: what setItems was handed since the last render
    setCustomItemsQueue, \* React: the same for setCustomItems
    issued,         \* the Count Store calls of the current batch, in issue order
    from,           \* items and customItems as the batch found them
    flushed,        \* the batch was rendered: its queues were processed
    config,         \* HttpDiscordService.config, as the constructor left it
    image,          \* the image of the uploadImage call in progress (its size)
    pc,             \* uploadImage: where the call stands
    attempt,        \* uploadImage: the loop variable
    fetchCalls,     \* number of times the transport (fetch) was invoked
    delays,         \* number of waits (this.delay) begun
    outcomes,       \* what fetch did in each attempt, oldest first
    result,         \* what uploadImage returned
    genPc,          \* generateImage: where the call stands
    counts,         \* generateImage: the counts it was called with
    canvas,         \* generateImage: what was drawn on the canvas, in order
    loads,          \* generateImage: how each load and the encoding went
    genResult,      \* what generateImage resolved with
    submissions,    \* AnalyticsDB: the rows of table submissions, by id
    submission_items, \* AnalyticsDB: the rows of table submission_items
    recCall,        \* the AnalyticsDB.recordSubmission call made last
    error,          \* LaundryCounter: the error state of the component
    imageGenerationError, \* useImageGeneration: error
    discordUploadError, \* useDiscordUpload: error
    submissionError, \* useSubmission: error
    isGeneratingImage, \* useImageGeneration: isGenerating
    isSendingToDiscord, \* useDiscordUpload: isUploading
    isRecording,    \* useSubmission: isRecording
    handlers,       \* the runs of handleDownload and handleSendToDiscord
    recordings,     \* the calls of useSubmission.recordSubmission, in order
    webhookFetches  \* POST /api/discord: its calls of fetch(webhookUrl), in order

storeVars == <<items, customItems, last>>
batchVars == <<setItemsQueue, setCustomItemsQueue, issued, from, flushed>>
uploadVars == <<config, image, pc, attempt, fetchCalls, delays, outcomes, result>>
genVars == <<genPc, counts, canvas, loads, genResult>>
dbVars == <<submissions, submission_items, recCall>>
orchVars == <<error, imageGenerationError, discordUploadError, submissionError,
              isGeneratingImage, isSendingToDiscord, isRecording, handlers,
              recordings, webhookFetches>>
vars == <<storeVars, batchVars, uploadVars, genVars, dbVars, orchVars>>

\* What each component leaves alone: the variables of the others.
outsideStore == <<batchVars, uploadVars, genVars, dbVars, orchVars>>
outsideBatch == <<uploadVars, genVars, dbVars, orchVars>>
outsideUpload == <<storeVars, batchVars, genVars, dbVars, orchVars>>
outsideGen == <<storeVars, batchVars, uploadVars, dbVars, orchVars>>
outsideDb == <<storeVars, batchVars, uploadVars, genVars, orchVars>>
outsideOrch == <<storeVars, batchVars, uploadVars, genVars, dbVars>>

----------------------------------------------------------------------------
(* Bounds of the model *)

\* The largest finite number of the model (stands for Number.MAX_VALUE).
MAX_VALUE == 1

\* The largest maxRetries a configuration of the model sets.
MaxConfiguredRetries == 2

\* The number of rows table submissions holds at most.
MaxSubmissions == 2

\* The number of times the Download and Send buttons are clicked at most.
MaxActions == 2

\* The largest number of Count Store calls between two renders.
MaxBatch == 3

----------------------------------------------------------------------------
(* JavaScript numbers *)

Fin(h) == [kind |-> "finite", h |-> h]
Whole(n) == Fin(2 * n)
NaN == [kind |-> "NaN", h |-> 0]
PosInfinity == [kind |-> "Infinity", h |-> 0]
NegInfinity == [kind |-> "-Infinity", h |-> 0]
Undefined == [kind |-> "undefined", h |-> 0]

\* Every number a caller can pass: the finite ones in steps of one half.
Numbers ==
    {Fin(h) : h \in (-2 * MAX_VALUE) .. (2 * MAX_VALUE)}
        \cup {NaN, PosInfinity, NegInfinity}

\* The integer deltas a caller can pass to updateCount.
Deltas == {Whole(n) : n \in (-MAX_VALUE) .. MAX_VALUE}

IsFinite(v) == v.kind = "finite"

\* A finite result that leaves the range of the finite numbers overflows.
Overflow(h) ==
    IF h > 2 * MAX_VALUE THEN PosInfinity
    ELSE IF h < -2 * MAX_VALUE THEN NegInfinity
    ELSE Fin(h)

\* a + b
Add(a, b) ==
    IF a.kind = "NaN" \/ b.kind = "NaN" THEN NaN
    ELSE IF IsFinite(a) /\ IsFinite(b) THEN Overflow(a.h + b.h)
    ELSE IF IsFinite(a) THEN b
    ELSE IF IsFinite(b) THEN a
    ELSE IF a = b THEN a
    ELSE NaN

\* Math.max(a, b)
MathMax(a, b) ==
    IF a.kind = "NaN" \/ b.kind = "NaN" THEN NaN
    ELSE IF a.kind = "Infinity" \/ b.kind = "Infinity" THEN PosInfinity
    ELSE IF a.kind = "-Infinity" THEN b
    ELSE IF b.kind = "-Infinity" THEN a
    ELSE IF a.h >= b.h THEN a ELSE b

\* Math.trunc(v) of a finite v: the fraction is dropped, toward zero.
MathTrunc(v) ==
    IF v.h >= 0 THEN Fin(2 * (v.h \div 2)) ELSE Fin(-(2 * ((-v.h) \div 2)))

\* v || 0: undefined, 0 and NaN are falsy.
OrZero(v) ==
    IF v.kind \in {"undefined", "NaN"} \/ v = Fin(0) THEN Whole(0) ELSE v

----------------------------------------------------------------------------
(* Strings *)

Whitespace == {" ", "\t"}

RECURSIVE TrimStart(_)
TrimStart(s) ==
    IF s # <<>> /\ Head(s) \in Whitespace THEN TrimStart(Tail(s)) ELSE s

RECURSIVE TrimEnd(_)
TrimEnd(s) ==
    IF s # <<>> /\ s[Len(s)] \in Whitespace
    THEN TrimEnd(SubSeq(s, 1, Len(s) - 1))
    ELSE s

\* String.prototype.trim
trim(s) == TrimEnd(TrimStart(s))

----------------------------------------------------------------------------
(* The catalog (app/assets/data/list.tsx): two of its categories, one item each *)

Barongs == <<"B", "a", "r", "o", "n", "g", "s">>
BathRobes == <<"B", "a", "t", "h", " ", "R", "o", "b", "e", "s">>

categories ==
    [RegularLaundry |-> <<[name |-> Barongs, x |-> 150, y |-> 540]>>,
     HomeItems |-> <<[name |-> BathRobes, x |-> 800, y |-> 305]>>]

\* Every item name of the catalog.
CatalogNames ==
    UNION {{cats[i].name : i \in DOMAIN cats} : cats \in {categories[c] : c \in DOMAIN categories}}

\* What a user types as the name of a new custom item.
TypedNames == {<<>>, <<" ">>, <<" ", "a", "\t">>, <<"a">>, <<"b">>}

\* The names the model passes in custom mode and to removeCustomItem.
CustomNames == {<<"a">>, <<"b">>}

\* The names the model passes in non-custom mode: the catalog's and one other.
PlainNames == CatalogNames \cup {<<"a">>}

----------------------------------------------------------------------------
(* Count Store: useLaundryItems *)

\* initializeItems(categories): every catalog item at 0.
initializeItems == [n \in CatalogNames |-> Whole(0)]

\* {}
EmptyMap == [k \in {} |-> Whole(0)]

\* prev[name]
Get(prev, name) == IF name \in DOMAIN prev THEN prev[name] ELSE Undefined

\* {...prev, [name]: v}
Assign(prev, name, v) ==
    [k \in DOMAIN prev \cup {name} |-> IF k = name THEN v ELSE prev[k]]

\* Math.max(0, (prev[name] || 0) + delta)
NextCount(prev, name, delta) ==
    MathMax(Whole(0), Add(OrZero(Get(prev, name)), delta))

\* A plausible slip in setCount: Math.round where the code has Math.trunc.
SanitizeRounding(value) ==
    IF IsFinite(value)
    THEN MathMax(Whole(0), Fin(2 * ((value.h + 1) \div 2)))
    ELSE Whole(0)

\* Number.isFinite(value) ? Math.max(0, Math.trunc(value)) : 0
SanitizeValue(value) ==
    IF IsFinite(value) THEN MathMax(Whole(0), MathTrunc(value)) ELSE Whole(0)

\* The record of a call, kept in last.
Call(op, name, num, isCustom, confirmed) ==
    [op |-> op, name |-> name, num |-> num, isCustom |-> isCustom,
     confirmed |-> confirmed]

\* The setter of the selected map, applied to its new value.
SetFn(isCustom, next) ==
    IF isCustom
    THEN customItems' = next /\ UNCHANGED items
    ELSE items' = next /\ UNCHANGED customItems

updateCount(name, delta, isCustom) ==
    /\ SetFn(isCustom,
             Assign(IF isCustom THEN customItems ELSE items, name,
                    NextCount(IF isCustom THEN customItems ELSE items, name, delta)))
    /\ last' = Call("updateCount", name, delta, isCustom, FALSE)
    /\ UNCHANGED outsideStore

setCount(name, value, isCustom) ==
    /\ SetFn(isCustom,
             Assign(IF isCustom THEN customItems ELSE items, name,
                    SanitizeValue(value)))
    /\ last' = Call("setCount", name, value, isCustom, FALSE)
    /\ UNCHANGED outsideStore

\* A plausible slip in resetCounts: the answer of window.confirm is ignored.
resetCountsUnconfirmed(confirmed) ==
    /\ items' = initializeItems
    /\ customItems' = EmptyMap
    /\ last' = Call("resetCounts", <<>>, Undefined, FALSE, confirmed)
    /\ UNCHANGED outsideStore

\* confirmed is the answer of window.confirm.
resetCounts(confirmed) ==
    /\ IF confirmed
       THEN items' = initializeItems /\ customItems' = EmptyMap
       ELSE UNCHANGED <<items, customItems>>
    /\ last' = Call("resetCounts", <<>>, Undefined, FALSE, confirmed)
    /\ UNCHANGED outsideStore

\* A plausible slip in addCustomItem: the key is the name as typed.
addCustomItemUntrimmed(name) ==
    /\ IF trim(name) = <<>>
       THEN UNCHANGED customItems
       ELSE customItems' = Assign(customItems, name, Whole(0))
    /\ last' = Call("addCustomItem", name, Undefined, TRUE, FALSE)
    /\ UNCHANGED <<items, outsideStore>>

addCustomItem(name) ==
    /\ IF trim(name) = <<>>
       THEN UNCHANGED customItems
       ELSE customItems' = Assign(customItems, trim(name), Whole(0))
    /\ last' = Call("addCustomItem", name, Undefined, TRUE, FALSE)
    /\ UNCHANGED <<items, outsideStore>>

\* A plausible slip in removeCustomItem: the whole map is dropped.
removeCustomItemAll(name) ==
    /\ customItems' = EmptyMap
    /\ last' = Call("removeCustomItem", name, Undefined, TRUE, FALSE)
    /\ UNCHANGED <<items, outsideStore>>

\* const { [name]: _, ...rest } = prev; return rest
removeCustomItem(name) ==
    /\ customItems' = [k \in DOMAIN customItems \ {name} |-> customItems[k]]
    /\ last' = Call("removeCustomItem", name, Undefined, TRUE, FALSE)
    /\ UNCHANGED <<items, outsideStore>>

----------------------------------------------------------------------------
(* Count Store, batched: several calls before the next render *)

\* What a callback hands to a state setter: an updater function, kept as the
\* call whose arguments it closes over, or a value.
Updater(u) == [fn |-> TRUE, call |-> u, value |-> EmptyMap]
Value(u, v) == [fn |-> FALSE, call |-> u, value |-> v]

\* The updater function of the call u, applied to prev.
ApplyUpdater(u, prev) ==
    IF u.op = "updateCount"
    THEN Assign(prev, u.name, NextCount(prev, u.name, u.num))
    ELSE IF u.op = "setCount"
    THEN Assign(prev, u.name, SanitizeValue(u.num))
    ELSE IF u.op = "addCustomItem"
    THEN Assign(prev, trim(u.name), Whole(0))
    ELSE [k \in DOMAIN prev \ {u.name} |-> prev[k]]

NoSetState == [items |-> <<>>, customItems |-> <<>>]

\* A plausible slip in the callbacks: updateCount and setCount hand the setter
\* a value computed from the rendered state, not an updater of prev.
setStateCallsFromRendered(u) ==
    IF u.op = "updateCount"
    THEN IF u.isCustom
         THEN [NoSetState EXCEPT !.customItems =
                  <<Value(u, Assign(customItems, u.name,
                                    NextCount(customItems, u.name, u.num)))>>]
         ELSE [NoSetState EXCEPT !.items =
                  <<Value(u, Assign(items, u.name,
                                    NextCount(items, u.name, u.num)))>>]
    ELSE IF u.op = "setCount"
    THEN IF u.isCustom
         THEN [NoSetState EXCEPT !.customItems =
                  <<Value(u, Assign(customItems, u.name, SanitizeValue(u.num)))>>]
         ELSE [NoSetState EXCEPT !.items =
                  <<Value(u, Assign(items, u.name, SanitizeValue(u.num)))>>]
    ELSE IF u.op = "resetCounts"
    THEN IF u.confirmed
         THEN [items |-> <<Value(u, initializeItems)>>,
               customItems |-> <<Value(u, EmptyMap)>>]
         ELSE NoSetState
    ELSE IF u.op = "addCustomItem" /\ trim(u.name) = <<>>
    THEN NoSetState
    ELSE [NoSetState EXCEPT !.customItems = <<Updater(u)>>]

\* The setter calls the callback of the call u makes, by setter.
setStateCalls(u) ==
    IF u.op \in {"updateCount", "setCount"}
    THEN IF u.isCustom
         THEN [NoSetState EXCEPT !.customItems = <<Updater(u)>>]
         ELSE [NoSetState EXCEPT !.items = <<Updater(u)>>]
    ELSE IF u.op = "resetCounts"
    THEN IF u.confirmed
         THEN [items |-> <<Value(u, initializeItems)>>,
               customItems |-> <<Value(u, EmptyMap)>>]
         ELSE NoSetState
    ELSE IF u.op = "addCustomItem" /\ trim(u.name) = <<>>
    THEN NoSetState
    ELSE [NoSetState EXCEPT !.customItems = <<Updater(u)>>]

\* React at the next render: the queue of one state is processed in order,
\* an updater on the state the one before it left, a value in its place.
RECURSIVE processQueue(_, _)
processQueue(queue, state) ==
    IF queue = <<>> THEN state
    ELSE processQueue(Tail(queue),
                      IF Head(queue).fn
                      THEN ApplyUpdater(Head(queue).call, state)
                      ELSE Head(queue).value)

\* The calls a batch is made of.
BatchCalls ==
    {Call("updateCount", Barongs, d, FALSE, FALSE) : d \in {Whole(1), Whole(-1)}}
        \cup {Call("updateCount", <<"a">>, Whole(1), TRUE, FALSE),
              Call("setCount", Barongs, Whole(1), FALSE, FALSE),
              Call("addCustomItem", <<"a">>, Undefined, TRUE, FALSE),
              Call("removeCustomItem", <<"a">>, Undefined, TRUE, FALSE),
              Call("resetCounts", <<>>, Undefined, FALSE, TRUE)}

\* A callback of the hook is called with the arguments of u, before the
\* component renders again; the first call after a render opens a batch.
call(u) ==
    /\ flushed \/ Len(issued) < MaxBatch
    /\ setItemsQueue' =
           (IF flushed THEN <<>> ELSE setItemsQueue) \o setStateCalls(u).items
    /\ setCustomItemsQueue' =
           (IF flushed THEN <<>> ELSE setCustomItemsQueue)
               \o setStateCalls(u).customItems
    /\ issued' = IF flushed THEN <<u>> ELSE Append(issued, u)
    /\ from' = [items |-> items, customItems |-> customItems]
    /\ flushed' = FALSE
    /\ UNCHANGED <<items, customItems, last, outsideBatch>>

\* The component renders: both queues are processed.
render ==
    /\ ~flushed
    /\ items' = processQueue(setItemsQueue, items)
    /\ customItems' = processQueue(setCustomItemsQueue, customItems)
    /\ last' = issued[Len(issued)]
    /\ setItemsQueue' = <<>>
    /\ setCustomItemsQueue' = <<>>
    /\ flushed' = TRUE
    /\ UNCHANGED <<issued, from, outsideBatch>>

----------------------------------------------------------------------------
(* Upload Client: HttpDiscordService *)

\* DISCORD_CONFIG.MAX_FILE_SIZE_BYTES
MAX_FILE_SIZE_BYTES == 8 * 1024 * 1024

\* ERROR_MESSAGES
DISCORD_WEBHOOK_NOT_SET == "DISCORD_WEBHOOK_URL is not set"
DISCORD_UPLOAD_FAILED == "Discord webhook request failed"

\* The message of the two generic returns of uploadImage.
RETRIES_EXHAUSTED == "Upload failed after all retry attempts"

\* A webhook URL: the string is empty or not, new URL(url) parses it or
\* throws, and a parsed one has a hostname and the segments of its pathname.
Url(given, parses, hostname, path) ==
    [given |-> given, parses |-> parses, hostname |-> hostname, path |-> path]

Urls ==
    {Url(FALSE, FALSE, "", <<>>),
     Url(TRUE, FALSE, "", <<>>),
     Url(TRUE, TRUE, "example.com", <<"api", "webhooks", "1", "t">>),
     Url(TRUE, TRUE, "discord.com", <<"api", "webhooks">>),
     Url(TRUE, TRUE, "discord.com", <<"api", "webhooks", "1", "t">>)}

\* The configurations a caller constructs the service with: maxRetries is
\* left out or is a non-negative integer.
ConfigInputs ==
    {[webhookUrl |-> u] : u \in Urls}
        \cup {[webhookUrl |-> u, maxRetries |-> n] :
                u \in Urls, n \in 0 .. MaxConfiguredRetries}

\* constructor: { maxRetries: 3, retryDelay: 1000, timeout: 30000, ...config }
Constructor(cfg) ==
    [webhookUrl |-> cfg.webhookUrl,
     maxRetries |-> IF "maxRetries" \in DOMAIN cfg THEN cfg.maxRetries ELSE 3,
     retryDelay |-> 1000,
     timeout |-> 30000]

\* this.config.maxRetries || 3
RetryLimit(cfg) == IF cfg.maxRetries = 0 THEN 3 ELSE cfg.maxRetries

\* parsed.pathname.includes('/api/webhooks/')
IncludesWebhooksPath(path) ==
    \E i \in 1 .. Len(path) - 2 : path[i] = "api" /\ path[i + 1] = "webhooks"

\* isValidWebhookUrl(url)
isValidWebhookUrl(url) ==
    /\ url.parses
    /\ url.hostname = "discord.com"
    /\ IncludesWebhooksPath(url.path)

\* validateConfiguration().errors
validateConfiguration(cfg) ==
    (IF ~cfg.webhookUrl.given THEN <<DISCORD_WEBHOOK_NOT_SET>> ELSE <<>>)
        \o (IF cfg.webhookUrl.given /\ ~isValidWebhookUrl(cfg.webhookUrl)
            THEN <<"Invalid Discord webhook URL format">>
            ELSE <<>>)

\* The images a caller uploads, by size in bytes.
Images == {[size |-> n] : n \in {1, MAX_FILE_SIZE_BYTES, MAX_FILE_SIZE_BYTES + 1}}

\* A plausible slip in the size check: an image of exactly the ceiling is
\* rejected too.
validateFileSizeBelowCeiling(img) == img.size < MAX_FILE_SIZE_BYTES

\* validateFileSize(image).isValid
validateFileSize(img) == ~(img.size > MAX_FILE_SIZE_BYTES)

\* What one call of fetch does: it throws a network error, it is aborted by
\* the timeout (AbortError), or it resolves to a response with a status and
\* a body that parses as JSON or does not.
Fetch(kind, status, json) == [kind |-> kind, status |-> status, json |-> json]

FetchOutcomes ==
    {Fetch("throw", 0, FALSE), Fetch("abort", 0, FALSE),
     Fetch("response", 200, TRUE), Fetch("response", 204, FALSE),
     Fetch("response", 400, FALSE), Fetch("response", 500, FALSE)}

\* response.ok
ResponseOk(f) == f.kind = "response" /\ f.status \in 200 .. 299

\* An attempt whose fetch did f failed.
Failed(f) == ~ResponseOk(f)

\* attemptUpload: the result it resolves to, or Thrown when it rethrows.
Thrown == [thrown |-> TRUE]

\* A plausible slip in attemptUpload: the catch does not tell the AbortError
\* of the timeout from other errors and rethrows it.
attemptUploadRethrowsAbort(f) ==
    IF f.kind \in {"throw", "abort"} THEN Thrown
    ELSE IF ~ResponseOk(f)
    THEN [success |-> FALSE, error |-> DISCORD_UPLOAD_FAILED, statusCode |-> f.status]
    ELSE IF f.json
    THEN [success |-> TRUE, messageId |-> "id", statusCode |-> f.status]
    ELSE [success |-> TRUE, statusCode |-> f.status]

attemptUpload(f) ==
    IF f.kind = "throw" THEN Thrown
    ELSE IF f.kind = "abort"
    THEN [success |-> FALSE, error |-> "Request timeout", statusCode |-> 408]
    ELSE IF ~ResponseOk(f)
    THEN [success |-> FALSE, error |-> DISCORD_UPLOAD_FAILED, statusCode |-> f.status]
    ELSE IF f.json
    THEN [success |-> TRUE, messageId |-> "id", statusCode |-> f.status]
    ELSE [success |-> TRUE, statusCode |-> f.status]

\* No result yet: the call has not returned.
NoResult == [pending |-> TRUE]

GenericFailure == [success |-> FALSE, error |-> RETRIES_EXHAUSTED]

\* A plausible slip in the retry loop: a successful attempt does not return.
AfterAttemptNoEarlyReturn(r, att, limit) ==
    IF att = limit
    THEN [pc |-> "returned", result |-> IF r = Thrown THEN GenericFailure ELSE r]
    ELSE [pc |-> "delay", result |-> NoResult]

\* A plausible slip in the retry loop: the last attempt's own failure is
\* returned as the generic one, and a thrown error as the upload error.
AfterAttemptSwapped(r, att, limit) ==
    IF r # Thrown /\ r.success
    THEN [pc |-> "returned", result |-> r]
    ELSE IF att = limit
    THEN [pc |-> "returned",
          result |-> IF r = Thrown
                     THEN [success |-> FALSE, error |-> DISCORD_UPLOAD_FAILED]
                     ELSE GenericFailure]
    ELSE [pc |-> "delay", result |-> NoResult]

\* The body of the retry loop after attemptUpload settled with r in attempt
\* att: return (lines 102-109 and 115-120) or wait before the next attempt.
AfterAttempt(r, att, limit) ==
    IF r # Thrown /\ r.success
    THEN [pc |-> "returned", result |-> r]
    ELSE IF att = limit
    THEN [pc |-> "returned", result |-> IF r = Thrown THEN GenericFailure ELSE r]
    ELSE [pc |-> "delay", result |-> NoResult]

\* uploadImage is called: the two pre-checks, then the loop is entered.
uploadImage(img) ==
    /\ pc \in {"idle", "returned"}
    /\ image' = img
    /\ attempt' = 0
    /\ fetchCalls' = 0
    /\ delays' = 0
    /\ outcomes' = <<>>
    /\ IF validateConfiguration(config) # <<>>
       THEN /\ pc' = "returned"
            /\ result' = [success |-> FALSE, error |-> validateConfiguration(config)]  \* joined
       ELSE IF ~validateFileSize(img)
       THEN /\ pc' = "returned"
            /\ result' = [success |-> FALSE, error |-> "exceeds Discord limit"]
       ELSE /\ pc' = IF 0 <= RetryLimit(config) THEN "attempt" ELSE "returned"
            /\ result' = IF 0 <= RetryLimit(config) THEN NoResult ELSE GenericFailure
    /\ UNCHANGED <<config, outsideUpload>>

\* One pass of the loop body: attemptUpload calls fetch, which does f.
attemptStep(f) ==
    /\ pc = "attempt"
    /\ fetchCalls' = fetchCalls + 1
    /\ outcomes' = Append(outcomes, f)
    /\ pc' = AfterAttempt(attemptUpload(f), attempt, RetryLimit(config)).pc
    /\ result' = AfterAttempt(attemptUpload(f), attempt, RetryLimit(config)).result
    /\ delays' = IF pc' = "delay" THEN delays + 1 ELSE delays
    /\ UNCHANGED <<config, image, attempt, outsideUpload>>

\* The wait is over: attempt++ and the loop condition.
delayElapsed ==
    /\ pc = "delay"
    /\ attempt' = attempt + 1
    /\ IF attempt + 1 <= RetryLimit(config)
       THEN pc' = "attempt" /\ UNCHANGED result
       ELSE pc' = "returned" /\ result' = GenericFailure
    /\ UNCHANGED <<config, image, fetchCalls, delays, outcomes, outsideUpload>>

----------------------------------------------------------------------------
(* Image Compositor: CanvasImageGenerator *)

\* CANVAS_CONFIG
DATE_X == 250
DATE_Y == 250
SIGNATURE_X == 735
SIGNATURE_Y == 1098
SIGNATURE_DATE_X == 850
SIGNATURE_DATE_Y == 1214

\* FILE_PATHS
TEMPLATE_IMAGE == "/template.jpg"
SIGNATURE_IMAGE == "/signature_bo.png"

\* ERROR_MESSAGES.IMAGE_GENERATION_FAILED
IMAGE_GENERATION_FAILED == "Failed to generate PNG"

\* new Date().toLocaleDateString('en-US') on the day of the call
Today == <<"11", "/", "3", "/", "2026">>

Digit == <<"0", "1", "2", "3", "4", "5", "6", "7", "8", "9">>

\* The decimal digits of a natural number.
RECURSIVE DigitsOf(_)
DigitsOf(n) ==
    IF n < 10 THEN <<Digit[n + 1]>>
    ELSE DigitsOf(n \div 10) \o <<Digit[(n % 10) + 1]>>

\* String(value)
NumberToString(v) ==
    IF IsFinite(v)
    THEN LET abs == IF v.h < 0 THEN -v.h ELSE v.h
         IN (IF v.h < 0 THEN <<"-">> ELSE <<>>)
                \o DigitsOf(abs \div 2)
                \o (IF abs % 2 = 1 THEN <<".", "5">> ELSE <<>>)
    ELSE <<v.kind>>

\* value > 0
GreaterThanZero(v) == (IsFinite(v) /\ v.h > 0) \/ v = PosInfinity

\* ctx.drawImage(img, x, y) and ctx.fillText(text, x, y), as marks on the canvas
DrawImage(img, x, y) == [op |-> "drawImage", what |-> img, x |-> x, y |-> y]
FillText(text, x, y) == [op |-> "fillText", what |-> text, x |-> x, y |-> y]

\* A plausible slip in drawIfPositive: a count of 0 is drawn too.
drawIfNotNegative(value, x, y) ==
    IF (IsFinite(value) /\ value.h >= 0) \/ value = PosInfinity
    THEN <<FillText(NumberToString(value), x, y)>>
    ELSE <<>>

\* drawIfPositive(value, x, y): what it adds to the canvas
drawIfPositive(value, x, y) ==
    IF GreaterThanZero(value) THEN <<FillText(NumberToString(value), x, y)>> ELSE <<>>

\* categoryItems.forEach(item => drawIfPositive(counts[item.name] || 0, ...))
RECURSIVE drawCategory(_, _)
drawCategory(c, categoryItems) ==
    IF categoryItems = <<>> THEN <<>>
    ELSE LET item == Head(categoryItems)
         IN drawIfPositive(OrZero(Get(c, item.name)), item.x, item.y)
                \o drawCategory(c, Tail(categoryItems))

\* drawItemCounts(ctx, counts, categories), over Object.values(categories)
drawItemCounts(c) ==
    drawCategory(c, categories.RegularLaundry) \o drawCategory(c, categories.HomeItems)

\* A plausible slip in drawSignature: the failed load is not caught.
drawSignatureUncaught(loaded) ==
    IF loaded
    THEN [threw |-> FALSE,
          drawn |-> <<DrawImage(SIGNATURE_IMAGE, SIGNATURE_X, SIGNATURE_Y),
                      FillText(Today, SIGNATURE_DATE_X, SIGNATURE_DATE_Y)>>]
    ELSE [threw |-> TRUE, drawn |-> <<>>]

\* drawSignature(ctx): the signature and the date near it, or a warning and
\* nothing when the signature does not load.
drawSignature(loaded) ==
    IF loaded
    THEN [threw |-> FALSE,
          drawn |-> <<DrawImage(SIGNATURE_IMAGE, SIGNATURE_X, SIGNATURE_Y),
                      FillText(Today, SIGNATURE_DATE_X, SIGNATURE_DATE_Y)>>]
    ELSE [threw |-> FALSE, drawn |-> <<>>]

\* generateFilename()
generateFilename == <<"laundry-output-", "yyyyMMddHHmmss", ".png">>

\* A plausible slip in generateImage: the error leaves the function.
generateImageRethrows(message) == Thrown

\* The catch of generateImage: the error becomes a result.
generateImageCatch(message) == [success |-> FALSE, error |-> message]

\* The counts a caller passes: any number under any of the catalog's names.
CountsInputs == UNION {[D -> Numbers] : D \in SUBSET CatalogNames}

NoLoads == [template |-> "none", context |-> "none", signature |-> "none", blob |-> "none"]

\* generateImage(counts, categories) is called: the template starts to load.
generateImage(c) ==
    /\ genPc \in {"idle", "settled"}
    /\ counts' = c
    /\ canvas' = <<>>
    /\ loads' = NoLoads
    /\ genResult' = NoResult
    /\ genPc' = "template"
    /\ UNCHANGED outsideGen

\* The template settled: onerror rejects; onload goes on to the context, the
\* template, the date and the item counts, and the signature starts to load.
templateSettled(loaded, hasContext) ==
    /\ genPc = "template"
    /\ IF ~loaded
       THEN /\ loads' = [loads EXCEPT !.template = "failed"]
            /\ genResult' = generateImageCatch(<<"Failed to load image: ", TEMPLATE_IMAGE>>)
            /\ genPc' = "settled"
            /\ UNCHANGED canvas
       ELSE IF ~hasContext
       THEN /\ loads' = [loads EXCEPT !.template = "ok", !.context = "failed"]
            /\ genResult' = generateImageCatch(<<"Failed to get canvas context">>)
            /\ genPc' = "settled"
            /\ UNCHANGED canvas
       ELSE /\ loads' = [loads EXCEPT !.template = "ok", !.context = "ok"]
            /\ canvas' = <<DrawImage(TEMPLATE_IMAGE, 0, 0), FillText(Today, DATE_X, DATE_Y)>>
                            \o drawItemCounts(counts)
            /\ genPc' = "signature"
            /\ UNCHANGED genResult
    /\ UNCHANGED <<counts, outsideGen>>

\* The signature settled: drawSignature returns and the canvas is encoded.
signatureSettled(loaded) ==
    /\ genPc = "signature"
    /\ loads' = [loads EXCEPT !.signature = IF loaded THEN "ok" ELSE "failed"]
    /\ IF drawSignature(loaded).threw
       THEN /\ genResult' = generateImageCatch(<<"Failed to load image: ", SIGNATURE_IMAGE>>)
            /\ genPc' = "settled"
            /\ UNCHANGED canvas
       ELSE /\ canvas' = canvas \o drawSignature(loaded).drawn
            /\ genPc' = "blob"
            /\ UNCHANGED genResult
    /\ UNCHANGED <<counts, outsideGen>>

\* canvas.toBlob called back, with a blob or with null.
blobSettled(encoded) ==
    /\ genPc = "blob"
    /\ loads' = [loads EXCEPT !.blob = IF encoded THEN "ok" ELSE "failed"]
    /\ genResult' = IF encoded
                    THEN [success |-> TRUE,
                          image |-> [type |-> "image/png", pixels |-> canvas],
                          filename |-> generateFilename]
                    ELSE generateImageCatch(<<IMAGE_GENERATION_FAILED>>)
    /\ genPc' = "settled"
    /\ UNCHANGED <<counts, canvas, outsideGen>>

----------------------------------------------------------------------------
(* Submission Recorder: AnalyticsDB *)

\* The counts a caller records: whole numbers under any of the catalog's names.
RecordedCounts == UNION {[D -> Deltas] : D \in SUBSET CatalogNames}

SubmissionChannels == {"download", "discord"}

\* Object.entries(counts).filter(([, count]) => count > 0), by name
itemsWithValues(c) == {n \in DOMAIN c : GreaterThanZero(c[n])}

\* What can go wrong in a call: nothing, or the statement that inserts the
\* submission throws, or the statement that inserts the item of a name does
\* (a full disk, a locked database, a value that cannot be bound).
NoFailure == [at |-> "none", name |-> <<>>]
SubmissionFails == [at |-> "submission", name |-> <<>>]
ItemFails(n) == [at |-> "item", name |-> n]
Failures(c) == {NoFailure, SubmissionFails} \cup {ItemFails(n) : n \in itemsWithValues(c)}

\* The row insertSubmission.run adds (customer_reference and scenario are
\* null in every call of the model, timestamp is the clock's).
SubmissionRow(c, channel, channelSuccess) ==
    [channel |-> channel,
     total_items |-> Cardinality(DOMAIN c),
     items_with_values |-> Cardinality(itemsWithValues(c)),
     channel_success |-> IF channelSuccess THEN 1 ELSE 0]

\* insertMany(itemsWithValues): a transaction around the item inserts alone.
\* When one of them throws, the items inserted before it are rolled back and
\* the error leaves the call.
insertMany(submissionId, c, failure) ==
    IF failure.at = "item"
    THEN [threw |-> TRUE, rows |-> {}]
    ELSE [threw |-> FALSE,
          rows |-> {[submission_id |-> submissionId, item_name |-> n, count |-> c[n]] :
                        n \in itemsWithValues(c)}]

RecCall(c, channel, channelSuccess, outcome) ==
    [counts |-> c, channel |-> channel, channelSuccess |-> channelSuccess,
     outcome |-> outcome]

\* recordSubmission(counts, {channel, channelSuccess}): the submission is
\* inserted on its own, then the items in one transaction.
recordSubmission(c, channel, channelSuccess, failure) ==
    /\ Len(submissions) < MaxSubmissions
    /\ IF failure.at = "submission"
       THEN /\ UNCHANGED <<submissions, submission_items>>
            /\ recCall' = RecCall(c, channel, channelSuccess, Thrown)
       ELSE LET submissionId == Len(submissions) + 1
                inserted == insertMany(submissionId, c, failure)
            IN /\ submissions' = Append(submissions, SubmissionRow(c, channel, channelSuccess))
               /\ submission_items' = submission_items \cup inserted.rows
               /\ recCall' = RecCall(c, channel, channelSuccess,
                                     IF inserted.threw THEN Thrown
                                     ELSE [returned |-> submissionId])
    /\ UNCHANGED outsideDb

----------------------------------------------------------------------------
(* Orchestrator: LaundryCounter with its hooks and ActionButtons *)

\* null, as a string that no message equals
Null == "null"

\* a || b of two error states
OrElse(a, b) == IF a = Null THEN b ELSE a

\* combinedError = error || imageGenerationError || discordUploadError
combinedError == OrElse(error, OrElse(imageGenerationError, discordUploadError))

\* ActionButtons: disabled={isGeneratingImage} of the Download button
DownloadDisabled == isGeneratingImage

\* ActionButtons: disabled={isSendingToDiscord || isGeneratingImage} of the
\* Send button
SendDisabled == isSendingToDiscord \/ isGeneratingImage

\* {...prev, ...more}
Merge(prev, more) ==
    [k \in DOMAIN prev \cup DOMAIN more |-> IF k \in DOMAIN more THEN more[k] ELSE prev[k]]

\* getAllCounts()
getAllCounts == Merge(items, customItems)

\* How the awaited calls of a handler settle: useImageGeneration.generateImage
\* resolves with the image or rejects with the generator's error; the fetch
\* of useDiscordUpload and of useSubmission gets a 2xx response, another
\* response, or fails; the fetch of useSubmission may also fail with a value
\* that is no Error.
GenerateOutcomes == {"ok", "failed"}
UploadFetches == {"ok", "notOk", "networkError"}
SubmissionFetches == {"ok", "notOk", "networkError", "nonError"}

\* useDiscordUpload.uploadImage after its fetch settled: it resolves with
\* true or with false, and sets its error in the second case.
uploadImageSettles(fetched) ==
    [uploaded |-> IF fetched = "ok" THEN "true" ELSE "false",
     error |-> IF fetched = "ok" THEN Null
               ELSE IF fetched = "notOk" THEN "Discord upload failed (500). "
               ELSE "Failed to fetch"]

\* A plausible slip in useSubmission.recordSubmission: the catch rethrows.
recordSubmissionRethrows(fetched) ==
    [settled |-> IF fetched = "ok" THEN "resolved" ELSE "rejected",
     value |-> IF fetched = "ok" THEN "submissionId" ELSE Null,
     error |-> IF fetched = "ok" THEN Null
               ELSE IF fetched = "notOk" THEN "Failed to record submission (500)"
               ELSE IF fetched = "networkError" THEN "Failed to fetch"
               ELSE "Unknown error recording submission"]

\* useSubmission.recordSubmission after its fetch settled: it resolves with
\* the submission id, or sets its error and resolves with null.
recordSubmissionSettles(fetched) ==
    [settled |-> "resolved",
     value |-> IF fetched = "ok" THEN "submissionId" ELSE Null,
     error |-> IF fetched = "ok" THEN Null
               ELSE IF fetched = "notOk" THEN "Failed to record submission (500)"
               ELSE IF fetched = "networkError" THEN "Failed to fetch"
               ELSE "Unknown error recording submission"]

\* handleDownload after generateImage settled: the link is clicked and the
\* submission recorded, or the catch sets the error.
downloadEnd(generated) ==
    IF generated = "ok"
    THEN [error |-> Null, saved |-> TRUE, record |-> TRUE, channelSuccess |-> TRUE]
    ELSE [error |-> IMAGE_GENERATION_FAILED, saved |-> FALSE, record |-> FALSE,
          channelSuccess |-> FALSE]

\* A plausible slip in handleSendToDiscord: the submission is recorded at the
\* end of the try block, as handleDownload does, and not in finally.
sendEndRecordsInTry(generated, uploaded) ==
    LET success == generated = "ok" /\ uploaded = "true"
    IN [error |-> IF generated = "failed" THEN IMAGE_GENERATION_FAILED
                  ELSE IF uploaded = "false" THEN "Discord upload failed"
                  ELSE IF uploaded = "threw" THEN "Failed to fetch"
                  ELSE Null,
        saved |-> FALSE,
        record |-> success,
        channelSuccess |-> success]

\* handleSendToDiscord after its awaited calls settled: generated is how
\* generateImage settled, uploaded what uploadImage resolved with ("none":
\* never called; "threw": it rejected).  success is assigned only by an
\* uploadImage that resolves; finally records the submission with it.
sendEnd(generated, uploaded) ==
    LET success == generated = "ok" /\ uploaded = "true"
    IN [error |-> IF generated = "failed" THEN IMAGE_GENERATION_FAILED
                  ELSE IF uploaded = "false" THEN "Discord upload failed"
                  ELSE IF uploaded = "threw" THEN "Failed to fetch"
                  ELSE Null,
        saved |-> FALSE,
        record |-> TRUE,
        channelSuccess |-> success]

\* A run of a handler: its channel, where it stands, how its awaited calls
\* settled, whether the file was saved, the items and the getAllCounts() of
\* the render it was created in, and whether no other run was pending at any
\* time of this one.
Handler(kind) ==
    [kind |-> kind, at |-> "generating", generated |-> "pending",
     uploaded |-> "none", saved |-> FALSE, counts |-> getAllCounts,
     items |-> items,
     alone |-> \A g \in DOMAIN handlers : handlers[g].at = "done"]

\* A call of useSubmission.recordSubmission by the handler run h.
Recording(h, c, channel, channelSuccess) ==
    [by |-> h, counts |-> c, channel |-> channel, channelSuccess |-> channelSuccess,
     settled |-> "pending", value |-> Null]

\* A plausible slip in the handlers: the counts recorded are read from the
\* store when the run ends.
EndHandlerReadsStore(h, generated, uploaded, end) ==
    /\ error' = IF end.error # Null THEN end.error ELSE error
    /\ handlers' = [handlers EXCEPT ![h] =
                        [@ EXCEPT !.at = "done", !.generated = generated,
                                  !.uploaded = uploaded, !.saved = end.saved]]
    /\ IF end.record
       THEN /\ recordings' = Append(recordings,
                                 Recording(h, getAllCounts, handlers[h].kind,
                                           end.channelSuccess))
            /\ isRecording' = TRUE
            /\ submissionError' = Null
       ELSE UNCHANGED <<recordings, isRecording, submissionError>>

\* The handler run h ends: its catch sets the error, and it calls
\* recordSubmission or not (setIsRecording(true), setError(null)) with the
\* getAllCounts() of its own closure.
EndHandler(h, generated, uploaded, end) ==
    /\ error' = IF end.error # Null THEN end.error ELSE error
    /\ handlers' = [handlers EXCEPT ![h] =
                        [@ EXCEPT !.at = "done", !.generated = generated,
                                  !.uploaded = uploaded, !.saved = end.saved]]
    /\ IF end.record
       THEN /\ recordings' = Append(recordings,
                                 Recording(h, handlers[h].counts, handlers[h].kind,
                                           end.channelSuccess))
            /\ isRecording' = TRUE
            /\ submissionError' = Null
       ELSE UNCHANGED <<recordings, isRecording, submissionError>>

\* The runs so far, when one more starts: a pending one is no longer alone.
Joined ==
    [g \in DOMAIN handlers |->
        [handlers[g] EXCEPT !.alone = @ /\ handlers[g].at = "done"]]

\* A plausible slip in the handlers: clearAllErrors() is not called, and only
\* the image hook's own setError(null) runs.
StartHandlerKeepsErrors(kind) ==
    /\ Len(handlers) < MaxActions
    /\ imageGenerationError' = Null
    /\ isGeneratingImage' = TRUE
    /\ handlers' = Append(Joined, Handler(kind))
    /\ UNCHANGED <<error, discordUploadError, submissionError, isSendingToDiscord,
                   isRecording, recordings, webhookFetches, outsideOrch>>

\* A handler starts: clearAllErrors(), then useImageGeneration.generateImage
\* sets isGenerating and awaits the generator.
StartHandler(kind) ==
    /\ Len(handlers) < MaxActions
    /\ error' = Null
    /\ imageGenerationError' = Null
    /\ discordUploadError' = Null
    /\ submissionError' = Null
    /\ isGeneratingImage' = TRUE
    /\ handlers' = Append(Joined, Handler(kind))
    /\ UNCHANGED <<isSendingToDiscord, isRecording, recordings, webhookFetches,
                   outsideOrch>>

\* The Download button is clicked.
handleDownload == ~DownloadDisabled /\ StartHandler("download")

\* The Send button is clicked.
handleSendToDiscord == ~SendDisabled /\ StartHandler("discord")

\* A plausible slip in handleSendToDiscord: a rejected generateImage is
\* swallowed and the upload is started all the same.
generationSettledUploadsAnyway(h, generated) ==
    /\ handlers[h].at = "generating"
    /\ isGeneratingImage' = FALSE
    /\ imageGenerationError' =
          IF generated = "failed" THEN IMAGE_GENERATION_FAILED ELSE imageGenerationError
    /\ IF handlers[h].kind = "download"
       THEN /\ EndHandler(h, generated, "none", downloadEnd(generated))
            /\ UNCHANGED <<isSendingToDiscord, discordUploadError>>
       ELSE /\ handlers' = [handlers EXCEPT ![h] =
                               [@ EXCEPT !.at = "uploading", !.generated = generated,
                                         !.uploaded = "pending"]]
            /\ isSendingToDiscord' = TRUE
            /\ discordUploadError' = Null
            /\ UNCHANGED <<error, recordings, isRecording, submissionError>>
    /\ UNCHANGED <<webhookFetches, outsideOrch>>

\* generateImage of the handler run h settled.
generationSettled(h, generated) ==
    /\ handlers[h].at = "generating"
    /\ isGeneratingImage' = FALSE
    /\ imageGenerationError' =
          IF generated = "failed" THEN IMAGE_GENERATION_FAILED ELSE imageGenerationError
    /\ IF handlers[h].kind = "download"
       THEN /\ EndHandler(h, generated, "none", downloadEnd(generated))
            /\ UNCHANGED <<isSendingToDiscord, discordUploadError>>
       ELSE IF generated = "failed"
       THEN /\ EndHandler(h, generated, "none", sendEnd(generated, "none"))
            /\ UNCHANGED <<isSendingToDiscord, discordUploadError>>
       ELSE /\ handlers' = [handlers EXCEPT ![h] =
                               [@ EXCEPT !.at = "uploading", !.generated = generated,
                                         !.uploaded = "pending"]]
            /\ isSendingToDiscord' = TRUE
            /\ discordUploadError' = Null
            /\ UNCHANGED <<error, recordings, isRecording, submissionError>>
    /\ UNCHANGED <<webhookFetches, outsideOrch>>

\* POST /api/discord for the upload of the run h, by what the hook's fetch
\* got back: a request that reached the route was passed on to the webhook by
\* one call of fetch(webhookUrl), whose answer the route turns into 200 or
\* 502; a request that failed on the way never reached the route.
POST(h, fetched) ==
    IF fetched = "networkError" THEN <<>>
    ELSE <<[by |-> h, ok |-> fetched = "ok"]>>

\* A plausible slip in useDiscordUpload: setIsUploading(false) is the last
\* statement of the try block and not a finally.
uploadSettledWithoutFinally(h, fetched) ==
    /\ handlers[h].at = "uploading"
    /\ isSendingToDiscord' = (uploadImageSettles(fetched).error # Null)
    /\ discordUploadError' = IF uploadImageSettles(fetched).error # Null
                             THEN uploadImageSettles(fetched).error
                             ELSE discordUploadError
    /\ EndHandler(h, "ok", uploadImageSettles(fetched).uploaded,
                  sendEnd("ok", uploadImageSettles(fetched).uploaded))
    /\ webhookFetches' = webhookFetches \o POST(h, fetched)
    /\ UNCHANGED <<isGeneratingImage, imageGenerationError, outsideOrch>>

\* uploadImage of the handler run h settled.
uploadSettled(h, fetched) ==
    /\ handlers[h].at = "uploading"
    /\ isSendingToDiscord' = FALSE
    /\ discordUploadError' = IF uploadImageSettles(fetched).error # Null
                             THEN uploadImageSettles(fetched).error
                             ELSE discordUploadError
    /\ EndHandler(h, "ok", uploadImageSettles(fetched).uploaded,
                  sendEnd("ok", uploadImageSettles(fetched).uploaded))
    /\ webhookFetches' = webhookFetches \o POST(h, fetched)
    /\ UNCHANGED <<isGeneratingImage, imageGenerationError, outsideOrch>>

\* The recordSubmission call k settled.
recordingSettled(k, fetched) ==
    /\ recordings[k].settled = "pending"
    /\ recordings' = [recordings EXCEPT ![k] =
                         [@ EXCEPT !.settled = recordSubmissionSettles(fetched).settled,
                                   !.value = recordSubmissionSettles(fetched).value]]
    /\ submissionError' = IF recordSubmissionSettles(fetched).error # Null
                          THEN recordSubmissionSettles(fetched).error
                          ELSE submissionError
    /\ isRecording' = FALSE
    /\ UNCHANGED <<error, imageGenerationError, discordUploadError, isGeneratingImage,
                   isSendingToDiscord, handlers, webhookFetches, outsideOrch>>

----------------------------------------------------------------------------
(* Specifications *)

\* The upload client before any call, constructed with cfg.
UploadIdle(cfg) ==
    /\ config = Constructor(cfg)
    /\ image = [size |-> 1]
    /\ pc = "idle"
    /\ attempt = 0
    /\ fetchCalls = 0
    /\ delays = 0
    /\ outcomes = <<>>
    /\ result = NoResult

\* useLaundryItems(categories) on its first render.
StoreInitial ==
    /\ items = initializeItems
    /\ customItems = EmptyMap
    /\ last = Call("init", <<>>, Undefined, FALSE, FALSE)

\* The image generator before any call.
GeneratorIdle ==
    /\ genPc = "idle"
    /\ counts = EmptyMap
    /\ canvas = <<>>
    /\ loads = NoLoads
    /\ genResult = NoResult

\* The upload client of the application's configuration, idle.
UploadReady ==
    UploadIdle([webhookUrl |-> Url(TRUE, TRUE, "discord.com", <<"api", "webhooks", "1", "t">>)])

\* The database after initSchema on a new file: both tables empty.
DatabaseEmpty ==
    /\ submissions = <<>>
    /\ submission_items = {}
    /\ recCall = RecCall(EmptyMap, "none", FALSE, NoResult)

\* LaundryCounter on its first render: no error, nothing in progress.
OrchestratorIdle ==
    /\ error = Null
    /\ imageGenerationError = Null
    /\ discordUploadError = Null
    /\ submissionError = Null
    /\ isGeneratingImage = FALSE
    /\ isSendingToDiscord = FALSE
    /\ isRecording = FALSE
    /\ handlers = <<>>
    /\ recordings = <<>>
    /\ webhookFetches = <<>>

\* No call was made since the first render.
BatchIdle ==
    /\ setItemsQueue = <<>>
    /\ setCustomItemsQueue = <<>>
    /\ issued = <<>>
    /\ from = [items |-> initializeItems, customItems |-> EmptyMap]
    /\ flushed = TRUE

Init ==
    /\ StoreInitial
    /\ BatchIdle
    /\ UploadReady
    /\ GeneratorIdle
    /\ DatabaseEmpty
    /\ OrchestratorIdle

Next ==
    \/ \E n \in PlainNames, d \in Deltas : updateCount(n, d, FALSE)
    \/ \E n \in CustomNames, d \in Deltas : updateCount(n, d, TRUE)
    \/ \E n \in PlainNames, v \in Numbers : setCount(n, v, FALSE)
    \/ \E n \in CustomNames, v \in Numbers : setCount(n, v, TRUE)
    \/ \E c \in BOOLEAN : resetCounts(c)
    \/ \E n \in TypedNames : addCustomItem(n)
    \/ \E n \in CustomNames : removeCustomItem(n)

Spec == Init /\ [][Next]_vars

InitUpload ==
    /\ StoreInitial
    /\ BatchIdle
    /\ GeneratorIdle
    /\ DatabaseEmpty
    /\ OrchestratorIdle
    /\ \E cfg \in ConfigInputs : UploadIdle(cfg)

NextUpload ==
    \/ \E img \in Images : uploadImage(img)
    \/ \E f \in FetchOutcomes : attemptStep(f)
    \/ delayElapsed

SpecUpload == InitUpload /\ [][NextUpload]_vars

NextImage ==
    \/ \E c \in CountsInputs : generateImage(c)
    \/ \E loaded \in BOOLEAN, hasContext \in BOOLEAN : templateSettled(loaded, hasContext)
    \/ \E loaded \in BOOLEAN : signatureSettled(loaded)
    \/ \E encoded \in BOOLEAN : blobSettled(encoded)

SpecImage == Init /\ [][NextImage]_vars

NextAnalytics ==
    \E c \in RecordedCounts, channel \in SubmissionChannels, channelSuccess \in BOOLEAN :
        \E failure \in Failures(c) : recordSubmission(c, channel, channelSuccess, failure)

SpecAnalytics == Init /\ [][NextAnalytics]_vars

NextOrch ==
    \/ handleDownload
    \/ handleSendToDiscord
    \/ \E h \in DOMAIN handlers, generated \in GenerateOutcomes : generationSettled(h, generated)
    \/ \E h \in DOMAIN handlers, fetched \in UploadFetches : uploadSettled(h, fetched)
    \/ \E k \in DOMAIN recordings, fetched \in SubmissionFetches : recordingSettled(k, fetched)

SpecOrch == Init /\ [][NextOrch]_vars

\* The awaited calls complete: a pending generateImage settles, and so does
\* a pending uploadImage.
generationCompletes ==
    \E h \in DOMAIN handlers, generated \in GenerateOutcomes :
        generationSettled(h, generated)

uploadCompletes ==
    \E h \in DOMAIN handlers, fetched \in UploadFetches : uploadSettled(h, fetched)

SpecOrchFair ==
    /\ Init
    /\ [][NextOrch]_vars
    /\ WF_vars(generationCompletes)
    /\ WF_vars(uploadCompletes)

\* A session: the user works the counters (a step up on a catalog item, a
\* custom item added, a reset) and clicks Download and Send, in any order the
\* page allows. The Reset button has no disabled attribute, and neither have
\* the counters. The recordSubmission calls stay pending here: their settling
\* touches neither the counts nor the handlers.
NextSession ==
    \/ handleDownload
    \/ handleSendToDiscord
    \/ \E h \in DOMAIN handlers, generated \in GenerateOutcomes : generationSettled(h, generated)
    \/ \E h \in DOMAIN handlers, fetched \in UploadFetches : uploadSettled(h, fetched)
    \/ updateCount(Barongs, Whole(1), FALSE)
    \/ addCustomItem(<<"a">>)
    \/ \E c \in BOOLEAN : resetCounts(c)

SpecSession == Init /\ [][NextSession]_vars

NextBatch ==
    \/ \E u \in BatchCalls : call(u)
    \/ render

SpecBatch == Init /\ [][NextBatch]_vars

----------------------------------------------------------------------------
(* Claims about the Count Store, checked under Spec *)

\* The map a call selects.
Selected(isCustom) == IF isCustom THEN customItems ELSE items

\* v is a whole number >= 0.
IsWholeCount(v) == v.kind = "finite" /\ v.h >= 0 /\ v.h % 2 = 0

\* k is s without the whitespace at its two ends.
IsTrimOf(k, s) ==
    \E i, j \in 0 .. Len(s) :
        /\ i + j <= Len(s)
        /\ k = SubSeq(s, i + 1, Len(s) - j)
        /\ \A p \in 1 .. i : s[p] \in {" ", "\t"}
        /\ \A p \in (Len(s) - j + 1) .. Len(s) : s[p] \in {" ", "\t"}
        /\ k # <<>> => k[1] \notin {" ", "\t"} /\ k[Len(k)] \notin {" ", "\t"}

\* C1: after any sequence of updateCount (integer deltas), setCount (any
\* number), addCustomItem, removeCustomItem and resetCounts, every value of
\* the predefined map and of the custom map is a whole number >= 0.
C1_CountsAreWhole ==
    /\ \A k \in DOMAIN items : IsWholeCount(items[k])
    /\ \A k \in DOMAIN customItems : IsWholeCount(customItems[k])

\* C2: setCount(name, value, isCustom) stores, for name in the selected map,
\* 0 when value is not finite, and otherwise the whole number n >= 0 with
\* n <= value < n + 1 for value >= 0 and n = 0 for value < 0, whatever the
\* count was before.
C2_SetCountSanitizes ==
    last.op = "setCount" =>
        /\ last.name \in DOMAIN Selected(last.isCustom)
        /\ LET stored == Selected(last.isCustom)[last.name]
           IN IF last.num.kind # "finite"
              THEN stored = Whole(0)
              ELSE /\ IsWholeCount(stored)
                   /\ last.num.h >= 0 =>
                        stored.h <= last.num.h /\ last.num.h < stored.h + 2
                   /\ last.num.h < 0 => stored.h = 0

\* A setCount of one half has stored 0: the fraction is dropped, not rounded.
C2_Witness ==
    /\ last.op = "setCount"
    /\ last.num = Fin(1)
    /\ ~last.isCustom
    /\ last.name = Barongs
    /\ items[Barongs] = Whole(0)
    /\ items[BathRobes] = Whole(1)

\* C3: a declined resetCounts leaves both maps as they were; an accepted one
\* leaves the predefined map with exactly the catalog names, each at 0, and
\* the custom map empty.
C3_ResetCounts ==
    [][last'.op = "resetCounts" =>
        IF last'.confirmed
        THEN /\ DOMAIN items' = CatalogNames
             /\ \A n \in CatalogNames : items'[n] = Whole(0)
             /\ DOMAIN customItems' = {}
        ELSE items' = items /\ customItems' = customItems]_vars

\* A reset was declined in a state with counts above 0 in both maps.
C3_Witness ==
    /\ last.op = "resetCounts"
    /\ ~last.confirmed
    /\ items[Barongs] = Whole(1)
    /\ <<"a">> \in DOMAIN customItems
    /\ customItems[<<"a">>] = Whole(1)

\* C4: addCustomItem of a name whose trimmed form is already a custom item
\* leaves the custom map unchanged (the item keeps its count).
C4_AddExistingIsIdempotent ==
    [][(last'.op = "addCustomItem" /\ trim(last'.name) \in DOMAIN customItems)
        => customItems' = customItems]_vars

\* C5: addCustomItem(name) puts the whitespace-trimmed name in the custom map
\* at 0, and changes neither map when the trimmed name is empty.
C5_AddTrims ==
    [][last'.op = "addCustomItem" =>
        IF IsTrimOf(<<>>, last'.name)
        THEN items' = items /\ customItems' = customItems
        ELSE \E k \in DOMAIN customItems' :
                /\ IsTrimOf(k, last'.name)
                /\ customItems'[k] = Whole(0)
                /\ DOMAIN customItems' = DOMAIN customItems \cup {k}]_vars

\* A name typed with whitespace around it was added under its trimmed form.
C5_Witness ==
    /\ last.op = "addCustomItem"
    /\ last.name = <<" ", "a", "\t">>
    /\ DOMAIN customItems = {<<"a">>}
    /\ customItems[<<"a">>] = Whole(0)

\* C6: removeCustomItem(name) removes the key name from the custom map and
\* nothing else: the other custom items keep their counts and the predefined
\* map is unchanged, so removing a name that is no key changes nothing.
C6_RemoveOnlyThatKey ==
    [][last'.op = "removeCustomItem" =>
        /\ items' = items
        /\ DOMAIN customItems' = DOMAIN customItems \ {last'.name}
        /\ \A k \in DOMAIN customItems' : customItems'[k] = customItems[k]]_vars

\* A name that is no key was removed and the one custom item kept its count.
C6_Witness ==
    /\ last.op = "removeCustomItem"
    /\ last.name = <<"b">>
    /\ DOMAIN customItems = {<<"a">>}
    /\ customItems[<<"a">>] = Whole(1)

\* C7: the keys of the predefined map are always catalog item names.
C7_ItemKeysInCatalog == DOMAIN items \subseteq CatalogNames

----------------------------------------------------------------------------
(* Claims about the Upload Client, checked under SpecUpload *)

\* The call passed both pre-checks.
PassedPreChecks == validateConfiguration(config) = <<>> /\ validateFileSize(image)

\* Every attempt made so far failed.
AllFailed == \A i \in 1 .. Len(outcomes) : Failed(outcomes[i])

\* C8: with a valid configuration and an in-limit payload, when every attempt
\* fails fetch is invoked exactly 1 + maxRetries times (maxRetries as
\* configured, 3 when unset) and uploadImage returns success:false.
C8_AttemptsAreOnePlusMaxRetries ==
    (pc = "returned" /\ PassedPreChecks /\ AllFailed) =>
        fetchCalls = 1 + config.maxRetries /\ result.success = FALSE

\* C9: an attempt that receives a success response is the last one: the call
\* has returned success:true with that response's status, fetch was invoked
\* once per attempt, and the only waits are those between the attempts.
C9_SuccessEndsTheCall ==
    \A k \in 1 .. Len(outcomes) :
        ResponseOk(outcomes[k]) =>
            /\ k = Len(outcomes)
            /\ k <= 1 + RetryLimit(config)
            /\ pc = "returned"
            /\ result.success = TRUE
            /\ result.statusCode = outcomes[k].status
            /\ fetchCalls = k
            /\ delays = k - 1

\* Two attempts failed, in different ways, and the third succeeded.
C9_Witness ==
    /\ pc = "returned"
    /\ Len(outcomes) = 3
    /\ outcomes[1].kind = "throw"
    /\ outcomes[2].kind = "response" /\ outcomes[2].status = 500
    /\ ResponseOk(outcomes[3])
    /\ result.success = TRUE
    /\ fetchCalls = 3

C11_PreChecksBeforeNetwork ==
    LET url == config.webhookUrl
        wellFormed == url = Url(TRUE, TRUE, "discord.com", <<"api", "webhooks", "1", "t">>)
        tooLarge == image.size >= 8 * 1024 * 1024 + 1
    IN pc # "idle" =>
        /\ (~wellFormed \/ tooLarge) =>
              /\ pc = "returned"
              /\ result.success = FALSE
              /\ "statusCode" \notin DOMAIN result
              /\ ~wellFormed => result.error \in
                    {<<"DISCORD_WEBHOOK_URL is not set">>,
                     <<"Invalid Discord webhook URL format">>}
              /\ (wellFormed /\ tooLarge) => result.error = "exceeds Discord limit"
              /\ fetchCalls = 0
              /\ delays = 0
              /\ outcomes = <<>>
        /\ (wellFormed /\ image.size = 8 * 1024 * 1024) =>
              (pc = "returned" => fetchCalls >= 1)

\* A call with an image one byte over the ceiling returned the exceeds-limit
\* error without a fetch.
C11_Witness ==
    /\ pc = "returned"
    /\ image.size = MAX_FILE_SIZE_BYTES + 1
    /\ result = [success |-> FALSE, error |-> "exceeds Discord limit"]
    /\ fetchCalls = 0

\* Whether the counts generateImage was given hold a number above zero under
\* the name.
PositiveCount(name) ==
    /\ name \in DOMAIN counts
    /\ \/ counts[name].kind = "finite" /\ counts[name].h >= 1
       \/ counts[name].kind = "Infinity"

\* The marks of the catalog's item counts, in the order of the catalog.
ExpectedCountMarks ==
    (IF PositiveCount(Barongs)
     THEN <<FillText(NumberToString(counts[Barongs]), 150, 540)>> ELSE <<>>)
        \o (IF PositiveCount(BathRobes)
            THEN <<FillText(NumberToString(counts[BathRobes]), 800, 305)>> ELSE <<>>)

\* C12: generateImage never throws or rejects. When the template fails to
\* load, the 2D context is null or the encoding yields no blob, it resolves
\* with {success:false, error} and no image; every other run that settles
\* resolves with {success:true, image, filename}.
C12_GenerateImageAlwaysResolves ==
    /\ genResult # [thrown |-> TRUE]
    /\ genPc # "settled" => genResult = [pending |-> TRUE]
    /\ genPc = "settled" =>
          IF "failed" \in {loads.template, loads.context, loads.blob}
          THEN /\ DOMAIN genResult = {"success", "error"}
               /\ genResult.success = FALSE
               /\ genResult.error \in
                     {<<"Failed to load image: ", "/template.jpg">>,
                      <<"Failed to get canvas context">>,
                      <<"Failed to generate PNG">>}
          ELSE /\ DOMAIN genResult = {"success", "image", "filename"}
               /\ genResult.success = TRUE

\* The encoding yielded no blob and the call resolved with the failure.
C12_Witness ==
    /\ genPc = "settled"
    /\ loads.blob = "failed"
    /\ genResult = [success |-> FALSE, error |-> <<"Failed to generate PNG">>]

\* C13: a signature that fails to load is tolerated. The call goes on to the
\* encoding with the template, the first date and the item counts still on
\* the canvas, and unless the encoding fails it resolves with success:true
\* and the image of that canvas.
C13_SignatureFailureTolerated ==
    loads.signature = "failed" =>
        /\ canvas = <<DrawImage("/template.jpg", 0, 0), FillText(Today, 250, 250)>>
                        \o ExpectedCountMarks
        /\ genPc = "settled" =>
              \/ loads.blob = "failed"
              \/ /\ genResult.success = TRUE
                 /\ genResult.image.pixels = canvas

\* The signature failed to load, a count was drawn, and the call succeeded.
C13_Witness ==
    /\ genPc = "settled"
    /\ loads.signature = "failed"
    /\ PositiveCount(Barongs)
    /\ genResult.success = TRUE
    /\ Len(genResult.image.pixels) = 3

\* C14: for every item of every category, the count text is drawn at the
\* item's (x, y) exactly when the count in the given map is above zero;
\* absent, 0, negative and NaN counts are skipped without error, and with no
\* count above zero the call still succeeds, drawing no item count.
C14_DrawnIffPositive ==
    loads.context = "ok" =>
        /\ \A c \in DOMAIN categories : \A i \in DOMAIN categories[c] :
              LET item == categories[c][i]
                  marks == {k \in DOMAIN canvas :
                              /\ canvas[k].op = "fillText"
                              /\ canvas[k].x = item.x
                              /\ canvas[k].y = item.y}
              IN /\ marks # {} <=> PositiveCount(item.name)
                 /\ \A k \in marks : canvas[k].what = NumberToString(counts[item.name])
        /\ Cardinality({k \in DOMAIN canvas :
                          canvas[k].op = "fillText" /\ canvas[k].what # Today})
              = Cardinality({n \in CatalogNames : PositiveCount(n)})
        /\ (genPc = "settled" /\ loads.blob = "ok") => genResult.success = TRUE

\* One count above zero was drawn, a count of 0 was not, and the call
\* succeeded with the signature.
C14_Witness ==
    /\ genPc = "settled"
    /\ genResult.success = TRUE
    /\ loads.signature = "ok"
    /\ counts = (Barongs :> Whole(1)) @@ (BathRobes :> Whole(0))
    /\ Len(canvas) = 5

\* The rows of submission_items that belong to the submission of an id.
ItemRowsOf(id) == {r \in submission_items : r.submission_id = id}

\* C15: a recordSubmission call that persists a submission row persists it
\* with total_items = the number of keys of counts and items_with_values =
\* the number of entries above zero, together with exactly one item row
\* (name, count) per entry above zero and none for the others; the number of
\* item rows of every submission equals its items_with_values.
C15_RowsMatchCounts ==
    [][Len(submissions') = Len(submissions) + 1 =>
        LET id == Len(submissions')
            c == recCall'.counts
            positive == {n \in DOMAIN c : c[n].kind = "finite" /\ c[n].h >= 1}
        IN /\ submissions'[id].total_items = Cardinality(DOMAIN c)
           /\ submissions'[id].items_with_values = Cardinality(positive)
           /\ {r \in submission_items' : r.submission_id = id}
                 = {[submission_id |-> id, item_name |-> n, count |-> c[n]] : n \in positive}
           /\ \A i \in 1 .. id :
                 Cardinality({r \in submission_items' : r.submission_id = i})
                    = submissions'[i].items_with_values]_vars

\* C16: recordSubmission is atomic over the submission and its items, also
\* when an item insert fails part-way: either all the rows of a submission
\* exist or none, so a submission row never exists with fewer item rows than
\* its items_with_values.
C16_SubmissionAtomic ==
    \A id \in 1 .. Len(submissions) :
        Cardinality(ItemRowsOf(id)) >= submissions[id].items_with_values

\* The recordSubmission calls made by the handler run h.
RecordingsBy(h) == {k \in DOMAIN recordings : recordings[k].by = h}

\* C17: every run of handleSendToDiscord that completes has made exactly one
\* recordSubmission call, with channel 'discord' and a success flag that is
\* true exactly when the upload returned success: it is false when the image
\* generation failed (and then the upload was never attempted), when the
\* upload returned failure and when the upload threw.  A run that has not
\* completed has made none.
C17_SendRecordsExactlyOnce ==
    /\ \A h \in DOMAIN handlers :
          handlers[h].kind = "discord" =>
             IF handlers[h].at = "done"
             THEN /\ Cardinality(RecordingsBy(h)) = 1
                  /\ \A k \in RecordingsBy(h) :
                        /\ recordings[k].channel = "discord"
                        /\ recordings[k].channelSuccess = (handlers[h].uploaded = "true")
                  /\ handlers[h].generated = "failed" => handlers[h].uploaded = "none"
             ELSE RecordingsBy(h) = {}
    /\ \A generated \in {"ok", "failed"} :
          \A uploaded \in (IF generated = "ok" THEN {"true", "false", "threw"} ELSE {"none"}) :
             /\ sendEnd(generated, uploaded).record = TRUE
             /\ sendEnd(generated, uploaded).channelSuccess = (uploaded = "true")

\* A send whose upload returned failure has recorded one failed submission.
C17_Witness ==
    \E h \in DOMAIN handlers :
        /\ handlers[h].kind = "discord"
        /\ handlers[h].at = "done"
        /\ handlers[h].uploaded = "false"
        /\ \E k \in RecordingsBy(h) : recordings[k].channelSuccess = FALSE

\* C18: every run of handleDownload that completes, whether the generation
\* succeeded or failed, has made exactly one recordSubmission call, with
\* channel 'download'.
C18_DownloadRecordsExactlyOnce ==
    \A h \in DOMAIN handlers :
        (handlers[h].kind = "download" /\ handlers[h].at = "done") =>
            /\ Cardinality(RecordingsBy(h)) = 1
            /\ \A k \in RecordingsBy(h) : recordings[k].channel = "download"

\* C19: useSubmission.recordSubmission never rejects: on an HTTP error, a
\* network error or a thrown value that is no Error it resolves with null.
\* The step in which a recording settles changes neither the outcome of any
\* handler run nor the error shown (combinedError), nor what is in progress.
C19_RecordingFailureIsSilent ==
    [][(Len(recordings') = Len(recordings) /\ recordings' # recordings) =>
        /\ \A k \in DOMAIN recordings' :
              /\ recordings'[k].settled \in {"pending", "resolved"}
              /\ recordings'[k].settled = "resolved" =>
                    recordings'[k].value \in {"submissionId", "null"}
        /\ submissionError' \notin {"null", submissionError} =>
              \E k \in DOMAIN recordings :
                 recordings[k].settled = "pending" /\ recordings'[k].value = "null"
        /\ combinedError' = combinedError
        /\ handlers' = handlers
        /\ isGeneratingImage' = isGeneratingImage
        /\ isSendingToDiscord' = isSendingToDiscord]_vars

\* A recording failed after a successful download: the hook's error is set,
\* the call resolved with null and no error is shown.
C19_Witness ==
    /\ submissionError = "Failed to fetch"
    /\ combinedError = "null"
    /\ \E k \in DOMAIN recordings :
          /\ recordings[k].settled = "resolved"
          /\ recordings[k].value = "null"
          /\ handlers[recordings[k].by].saved

\* C20: at most one asynchronous action is pending. Whenever an image is
\* being generated or an upload is in progress, both the Download and the
\* Send control are disabled, so no second action starts while one is under
\* way.
C20_OneActionAtATime ==
    /\ (isGeneratingImage \/ isSendingToDiscord) => (DownloadDisabled /\ SendDisabled)
    /\ Cardinality({h \in DOMAIN handlers : handlers[h].at # "done"}) <= 1

\* C21: errors do not stack across actions. Every handler first clears the
\* component error and the errors of the three hooks, so when a run that
\* overlapped no other has completed and no later run has started, the error
\* shown is that run's alone: none if it succeeded, the one message of its
\* failure otherwise.
C21_ErrorsDoNotStack ==
    (handlers # <<>>) =>
        LET h == handlers[Len(handlers)]
        IN (h.at = "done" /\ h.alone) =>
              combinedError =
                 IF h.generated = "failed" THEN "Failed to generate PNG"
                 ELSE IF h.kind = "discord" /\ h.uploaded # "true"
                 THEN "Discord upload failed"
                 ELSE "null"

\* A download succeeded after a send that failed, and no error is shown.
C21_Witness ==
    /\ Len(handlers) = 2
    /\ handlers[1].kind = "discord" /\ handlers[1].uploaded = "false" /\ handlers[1].alone
    /\ handlers[2].kind = "download" /\ handlers[2].at = "done" /\ handlers[2].alone
    /\ handlers[2].saved
    /\ combinedError = "null"

\* C22: in a send, the uploading state is entered only after the image
\* generation succeeded. When generateImage fails, the run ends in that
\* step: uploadImage is never invoked for it, one error string is set and
\* shown, and nothing is generating or uploading any more.
C22_UploadOnlyAfterGeneration ==
    [][\A h \in DOMAIN handlers :
        (handlers[h].kind = "discord" /\ handlers[h].at = "generating"
            /\ handlers'[h].at # "generating") =>
           IF handlers'[h].generated = "ok"
           THEN handlers'[h].at = "uploading"
           ELSE /\ handlers'[h].generated = "failed"
                /\ handlers'[h].at = "done"
                /\ handlers'[h].uploaded = "none"
                /\ error' = "Failed to generate PNG"
                /\ combinedError' = "Failed to generate PNG"
                /\ ~isGeneratingImage'
                /\ ~isSendingToDiscord']_vars

\* A send whose image generation failed is over without an upload.
C22_Witness ==
    /\ Len(handlers) = 1
    /\ handlers[1].kind = "discord"
    /\ handlers[1].generated = "failed"
    /\ handlers[1].at = "done"
    /\ handlers[1].uploaded = "none"
    /\ error = "Failed to generate PNG"
    /\ ~isGeneratingImage /\ ~isSendingToDiscord

\* C23: Reset is only available from the idle state. No step resets the
\* Count Store (a resetCounts call, confirmed or not) while an image is being
\* generated or an upload is in progress.
C23_ResetOnlyFromIdle ==
    [][(last'.op = "resetCounts" /\ <<items, customItems, last>>' # <<items, customItems, last>>) =>
        /\ ~isGeneratingImage
        /\ ~isSendingToDiscord
        /\ \A h \in DOMAIN handlers : handlers[h].at = "done"]_vars

\* C30: snapshot consistency. A run that starts takes the items and the
\* merged counts of that moment; no later step changes what it took; and the
\* recordSubmission call it makes when it ends carries those counts, whatever
\* happened to the Count Store while the run was pending.
C30_RecordsTheSnapshot ==
    [][/\ Len(handlers') = Len(handlers) + 1 =>
            LET new == handlers'[Len(handlers')]
            IN /\ new.items = items
               /\ new.counts = [k \in DOMAIN items \cup DOMAIN customItems |->
                                   IF k \in DOMAIN customItems THEN customItems[k]
                                   ELSE items[k]]
       /\ \A h \in DOMAIN handlers :
             /\ handlers'[h].items = handlers[h].items
             /\ handlers'[h].counts = handlers[h].counts
       /\ Len(recordings') = Len(recordings) + 1 =>
            LET r == recordings'[Len(recordings')]
            IN /\ r.by \in DOMAIN handlers
               /\ handlers[r.by].at # "done" /\ handlers'[r.by].at = "done"
               /\ r.counts = handlers[r.by].counts]_vars

\* A send recorded the counts of its start although the store was changed
\* while it was pending.
C30_Witness ==
    \E k \in DOMAIN recordings :
        /\ recordings[k].channel = "discord"
        /\ recordings[k].counts = handlers[recordings[k].by].counts
        /\ recordings[k].counts # getAllCounts
        /\ recordings[k].counts[Barongs] = Whole(0)
        /\ items[Barongs] = Whole(1)
        /\ <<"a">> \in DOMAIN customItems
        /\ <<"a">> \notin DOMAIN recordings[k].counts

\* C24: the download path never retries, and the send path does: a send
\* whose delivery to the webhook failed is re-attempted before the action
\* reports the failure, so a failed send that reached the webhook made more
\* than one delivery attempt, and a download made none.
C24_SendPathRetries ==
    \A h \in DOMAIN handlers :
        LET attempts == {k \in DOMAIN webhookFetches : webhookFetches[k].by = h}
        IN /\ handlers[h].kind = "download" => attempts = {}
           /\ (handlers[h].kind = "discord" /\ handlers[h].at = "done"
                 /\ handlers[h].uploaded = "false" /\ attempts # {})
                => Cardinality(attempts) >= 2

\* C25: when the final attempt of uploadImage ends without a transport
\* exception but unsuccessfully, the call returns that attempt's own result
\* and not a generic one: a non-success HTTP status gives the error 'Discord
\* webhook request failed' with the response's status as statusCode, and a
\* timed-out attempt gives 'Request timeout' with statusCode 408, which no
\* other ending of the call gives.
C25_FinalAttemptOwnResult ==
    (pc = "returned" /\ PassedPreChecks /\ outcomes # <<>>) =>
        LET final == outcomes[Len(outcomes)]
        IN /\ (final.kind = "response" /\ ~ResponseOk(final)) =>
                /\ result.success = FALSE
                /\ result.error = "Discord webhook request failed"
                /\ result.statusCode = final.status
                /\ attempt = RetryLimit(config)
           /\ final.kind = "abort" =>
                /\ result.success = FALSE
                /\ result.error = "Request timeout"
                /\ result.statusCode = 408
                /\ attempt = RetryLimit(config)
           /\ final.kind # "abort" =>
                ~("error" \in DOMAIN result /\ result.error = "Request timeout")

\* A network exception, then a timeout as the final attempt.
C25_Witness ==
    /\ pc = "returned"
    /\ config.maxRetries = 1
    /\ Len(outcomes) = 2
    /\ outcomes[1].kind = "throw"
    /\ outcomes[2].kind = "abort"
    /\ result = [success |-> FALSE, error |-> "Request timeout", statusCode |-> 408]

\* C26: the delay discipline of the retry loop. No wait comes before the
\* first attempt; exactly one wait lies between two consecutive attempts; a
\* wait follows a failed attempt only, and never the final, 1 + maxRetries-th
\* one; no wait follows a successful attempt: a call that has returned after
\* n attempts has waited n - 1 times.
C26_DelayDiscipline ==
    /\ pc = "attempt" => delays = fetchCalls
    /\ pc = "delay" =>
        /\ delays = fetchCalls
        /\ Failed(outcomes[Len(outcomes)])
        /\ fetchCalls < 1 + config.maxRetries
    /\ (pc = "returned" /\ fetchCalls > 0) => delays = fetchCalls - 1

\* C27: every successful generateImage run has drawn the date twice, once at
\* the date position and once near the signature, and the second date is on
\* the image whether or not the signature overlay was loaded.
C27_DateDrawnTwice ==
    (genPc = "settled" /\ genResult.success = TRUE) =>
        LET pixels == genResult.image.pixels
            drawn(mark) == \E k \in DOMAIN pixels : pixels[k] = mark
        IN /\ drawn(FillText(Today, DATE_X, DATE_Y))
           /\ drawn(FillText(Today, SIGNATURE_DATE_X, SIGNATURE_DATE_Y))

\* One Count Store operation applied on its own to the state st.
Applied(u, st) ==
    LET map == IF u.isCustom THEN st.customItems ELSE st.items
        put(m) == IF u.isCustom THEN [st EXCEPT !.customItems = m]
                  ELSE [st EXCEPT !.items = m]
    IN CASE u.op = "updateCount" ->
              put(Assign(map, u.name,
                         MathMax(Whole(0), Add(OrZero(Get(map, u.name)), u.num))))
         [] u.op = "setCount" -> put(Assign(map, u.name, SanitizeValue(u.num)))
         [] u.op = "resetCounts" ->
              IF u.confirmed
              THEN [items |-> initializeItems, customItems |-> EmptyMap]
              ELSE st
         [] u.op = "addCustomItem" ->
              IF trim(u.name) = <<>> THEN st
              ELSE put(Assign(map, trim(u.name), Whole(0)))
         [] u.op = "removeCustomItem" ->
              put([k \in DOMAIN map \ {u.name} |-> map[k]])

\* The operations of calls applied one after another, in order, from st.
RECURSIVE Sequentially(_, _)
Sequentially(calls, st) ==
    IF calls = <<>> THEN st
    ELSE Sequentially(Tail(calls), Applied(Head(calls), st))

\* C28: no update is lost when several Count Store operations are issued
\* before the state is read again. Once the batch is rendered the state is
\* what applying its operations one after another, in issue order, to the
\* state the batch found gives, the clamp to 0 applied after each updateCount.
C28_NoUpdateLost ==
    flushed =>
        [items |-> items, customItems |-> customItems] = Sequentially(issued, from)

\* From 0, -1 and then +1 in one batch gave 1.
C28_Witness ==
    /\ flushed
    /\ from.items[Barongs] = Whole(0)
    /\ issued = <<Call("updateCount", Barongs, Whole(-1), FALSE, FALSE),
                  Call("updateCount", Barongs, Whole(1), FALSE, FALSE)>>
    /\ items[Barongs] = Whole(1)

\* A download or send is under way.
ActionPending == \E h \in DOMAIN handlers : handlers[h].at # "done"

\* The orchestration is idle: nothing is generating or uploading.
Idle == ~ActionPending /\ ~isGeneratingImage /\ ~isSendingToDiscord

\* C29: every download or send eventually returns the orchestration to
\* idle, whether it succeeds or fails, given that each image generation and
\* each upload completes: a pending action leads to a state where no action
\* is pending and isGenerating and isUploading are both false, and whenever
\* no action is pending both flags are false.
C29_EventuallyIdle ==
    /\ [](~ActionPending => Idle)
    /\ ActionPending ~> Idle

\* Idle again after a send whose upload failed and a download whose image
\* generation failed.
C29_Witness ==
    /\ Idle
    /\ \E h \in DOMAIN handlers :
          handlers[h].kind = "discord" /\ handlers[h].uploaded = "false"
    /\ \E h \in DOMAIN handlers :
          handlers[h].kind = "download" /\ handlers[h].generated = "failed"

====
